---- MODULE Spec2Model ----
(***************************************************************************)
(* PUEORootReader (src/analysis/reader.py): the columns of the eventTree   *)
(* are loaded once, an active (run, event) selection is kept, and every    *)
(* selection change re-reads the per-event attributes from the columns.    *)
(*                                                                         *)
(* Python sequences are 0-based; TLA+ sequences are 1-based.  Positions    *)
(* handled by the program (_active_index, the results of nonzero(), the    *)
(* index arguments) keep their 0-based Python values; an access seq[i] of  *)
(* the program is written Item(seq, i).                                    *)
(***************************************************************************)
EXTENDS Integers, Sequences, FiniteSets, TLC

VARIABLES
    archive,  \* the loaded columns, row-wise: archive[i] holds row i-1 of every column
    pc,       \* "new" before __init__, "ready" once it returned, "failed" if it raised
    self,     \* the attributes of the reader instance
    call,     \* the last call made on the reader: [op, a, b, index]
    ret       \* what that call did: [exc, val]

vars == <<archive, pc, self, call, ret>>

(***************************************************************************)
(* Bounds and input sets                                                   *)
(***************************************************************************)
MaxRows == 2

None == -1

RunVals == {839, 840}
EventVals == {7900, 7901}
RunArgs == RunVals \cup {999}
EventArgs == EventVals \cup {7999}
ChannelArgs == {0, 7, 123}
IndexArgs == (0 - (MaxRows + 1)) .. MaxRows
Flag == 0 .. 1
TimeVals == {50, 100, 150}
ChanLists == {<<>>, <<0>>, <<123>>, <<0, 123>>, <<123, 0>>, <<0, 0>>}

(***************************************************************************)
(* Archives.  A row carries every column read in __init__.                 *)
(***************************************************************************)
BaseRow(r, e, k) ==
    [run |-> r, event |-> e,
     event_second |-> 1700000000 + k,
     event_time |-> 100 + k, last_pps |-> 50, llast_pps |-> 10,
     deadtime_counter |-> 7 + k,
     deadtime_counter_last_pps |-> 5,
     deadtime_counter_llast_pps |-> 3,
     L2_mask |-> 4 + k,
     soft_trigger |-> 0, pps_trigger |-> 0, ext_trigger |-> 0,
     readout_time_utc_secs |-> 1700000001 + k,
     readout_time_utc_nsecs |-> 500 + k,
     channel_id |-> <<0, 123>>,
     surf_word |-> <<k, k>>,
     wf_length |-> <<2, 2>>,
     wfs |-> << <<10 * k + 1, 10 * k + 2>>, <<10 * k + 3, 10 * k + 4>> >>]

\* rows that differ in run, event and one flag: runs out of order, several
\* events per run, the same (run, event) pair in more than one row
SelRows ==
    {[BaseRow(r, e, s) EXCEPT !.soft_trigger = s] :
        r \in RunVals, e \in EventVals, s \in Flag}

SelArchives == UNION {[1 .. n -> SelRows] : n \in 1 .. MaxRows}

\* one run, consecutive events, every combination of the three trigger flags
TrigRow(k, f) ==
    [BaseRow(839, 7900 + k, k) EXCEPT
        !.soft_trigger = f[1], !.pps_trigger = f[2], !.ext_trigger = f[3]]

TrigArchives ==
    UNION {{[k \in 1 .. n |-> TrigRow(k, fs[k])] :
                fs \in [1 .. n -> Flag \X Flag \X Flag]} : n \in 1 .. MaxRows}

\* one run, consecutive events, every channel list; each waveform names its
\* row and its position
WfRow(k, ch) ==
    [BaseRow(839, 7900 + k, k) EXCEPT
        !.channel_id = ch,
        !.surf_word = [j \in 1 .. Len(ch) |-> k],
        !.wf_length = [j \in 1 .. Len(ch) |-> 2],
        !.wfs = [j \in 1 .. Len(ch) |-> <<10 * k + j, 10 * k + j + 100>>]]

WfArchives ==
    UNION {{[k \in 1 .. n |-> WfRow(k, cs[k])] :
                cs \in [1 .. n -> ChanLists]} : n \in 1 .. MaxRows}

\* a single event with every ordering of the three clock counters
TimeRow(t) ==
    [BaseRow(839, 7900, 0) EXCEPT
        !.event_time = t[1], !.last_pps = t[2], !.llast_pps = t[3]]

TimeArchives == {<<TimeRow(t)>> : t \in TimeVals \X TimeVals \X TimeVals}

Archives == SelArchives \cup TrigArchives \cup WfArchives \cup TimeArchives

(***************************************************************************)
(* Python and numpy helpers                                                *)
(***************************************************************************)
\* seq[i] of Python: 0-based, a negative i counts from the end, anything
\* else raises IndexError
InRange(seq, i) == (0 - Len(seq)) <= i /\ i < Len(seq)

Item(seq, i) == IF i >= 0 THEN seq[i + 1] ELSE seq[Len(seq) + i + 1]

Range(seq) == {seq[i] : i \in 1 .. Len(seq)}

\* int(x) on the integer arguments the calls are given
int(x) == x

\* x == column: the element-wise comparison
EqMask(x, column) == [i \in 1 .. Len(column) |-> x = column[i]]

\* np.logical_and(m1, m2)
logical_and(m1, m2) == [i \in 1 .. Len(m1) |-> m1[i] /\ m2[i]]

\* np.asarray(mask).nonzero()[0]: the 0-based positions where mask holds,
\* ascending
RECURSIVE NonzeroFrom(_, _)
NonzeroFrom(mask, i) ==
    IF i > Len(mask) THEN <<>>
    ELSE (IF mask[i] THEN <<i - 1>> ELSE <<>>) \o NonzeroFrom(mask, i + 1)

nonzero(mask) == NonzeroFrom(mask, 1)

\* column[positions]: the entries of a column at the given 0-based positions
Take(column, positions) ==
    [k \in 1 .. Len(positions) |-> column[positions[k] + 1]]

RECURSIVE SortSet(_)
SortSet(S) ==
    IF S = {} THEN <<>>
    ELSE LET m == CHOOSE x \in S : \A y \in S : x <= y
         IN  <<m>> \o SortSet(S \ {m})

\* np.unique(column): the distinct values, ascending
unique(column) == SortSet(Range(column))

\* bin(n) for n >= 0: the characters of '0b...'
RECURSIVE Bits(_)
Bits(n) == IF n < 2 THEN <<IF n = 1 THEN "1" ELSE "0">>
           ELSE Bits(n \div 2) \o <<IF n % 2 = 1 THEN "1" ELSE "0">>

bin(n) == <<"0", "b">> \o Bits(n)

(***************************************************************************)
(* The columns                                                             *)
(***************************************************************************)
Column(name) == [i \in 1 .. Len(archive) |-> archive[i][name]]

RUNS == Column("run")
EVENTS == Column("event")
SOFT_TRIGGER == Column("soft_trigger")
PPS_TRIGGER == Column("pps_trigger")
EXT_TRIGGER == Column("ext_trigger")

(***************************************************************************)
(* Properties of the reader                                                *)
(***************************************************************************)
\* distinct runs in first-appearance order (what runs would be without the
\* sort of np.unique)
RECURSIVE DistinctFrom(_, _, _)
DistinctFrom(column, i, seen) ==
    IF i > Len(column) THEN <<>>
    ELSE IF column[i] \in seen THEN DistinctFrom(column, i + 1, seen)
    ELSE <<column[i]>> \o DistinctFrom(column, i + 1, seen \cup {column[i]})

runs_unsorted == DistinctFrom(RUNS, 1, {})

runs == unique(RUNS)

events(s) == Take(EVENTS, nonzero(EqMask(s.run, RUNS)))

N(s) == Len(events(s))

trigger_type_swapped(s) == 1 * s.soft_trigger + 3 * s.pps_trigger + 2 * s.ext_trigger

trigger_type(s) == 1 * s.soft_trigger + 2 * s.pps_trigger + 3 * s.ext_trigger

(***************************************************************************)
(* subsecond.  The counters are uint32; np.float64 holds every uint32      *)
(* exactly and the differences of two of them exactly.  Such a value v is  *)
(* written in two limbs, v = hi * 2^16 + lo with 0 <= lo < 2^16, so that   *)
(* a signed difference and a difference modulo 2^32 are both expressible.  *)
(* The quotient is kept as the exact fraction num / den (den = 0: the      *)
(* inf or nan numpy yields); the float64 result is that fraction rounded.  *)
(***************************************************************************)
Limb == 65536

Wide(v) == [hi |-> v \div Limb, lo |-> v % Limb]

WideToInt(w) == w.hi * Limb + w.lo

float64(u) == Wide(u)

FloatSub(a, b) ==
    LET borrow == IF a.lo < b.lo THEN 1 ELSE 0
    IN  [hi |-> a.hi - b.hi - borrow, lo |-> (a.lo - b.lo) % Limb]

\* the difference two uint32 operands give without the casts: modulo 2^32
Uint32Sub(a, b) ==
    LET d == FloatSub(a, b) IN [hi |-> d.hi % Limb, lo |-> d.lo]

FloatDiv(a, b) == [num |-> a, den |-> b]

subsecond_uint32(s) ==
    FloatDiv(Uint32Sub(Wide(s.event_time), Wide(s.last_pps)),
             Uint32Sub(Wide(s.last_pps), Wide(s.llast_pps)))

subsecond(s) ==
    FloatDiv(FloatSub(float64(s.event_time), float64(s.last_pps)),
             FloatSub(float64(s.last_pps), float64(s.llast_pps)))

(***************************************************************************)
(* The instance                                                            *)
(***************************************************************************)
\* the attributes before __init__ assigns them
Unset ==
    [run |-> None, event |-> None, active_index |-> None,
     event_second |-> None, event_time |-> None,
     last_pps |-> None, llast_pps |-> None,
     deadtime_counter |-> None,
     deadtime_counter_last_pps |-> None,
     deadtime_counter_llast_pps |-> None,
     l2_mask |-> <<>>,
     soft_trigger |-> None, pps_trigger |-> None, ext_trigger |-> None,
     readout_time_utc_sec |-> None, readout_time_utc_nsec |-> None,
     channel_ids |-> <<>>, surf_word |-> <<>>, wf_length |-> <<>>,
     wfs |-> <<>>]

\* the outcome of a call: the instance it leaves, the exception it raised
\* ("none": it returned) and the value it returned
Returned(s, v) == [self |-> s, exc |-> "none", val |-> v]
Raised(s, e) == [self |-> s, exc |-> e, val |-> <<>>]

\* the assignments of _INITIALIZE_EVENT for raw index i (0-based)
ReadRow(s, i) ==
    LET row == archive[i + 1]
    IN  [s EXCEPT
            !.active_index = i,
            !.event_second = row.event_second,
            !.event_time = row.event_time,
            !.last_pps = row.last_pps,
            !.llast_pps = row.llast_pps,
            !.deadtime_counter = row.deadtime_counter,
            !.deadtime_counter_last_pps = row.deadtime_counter_last_pps,
            !.deadtime_counter_llast_pps = row.deadtime_counter_llast_pps,
            !.l2_mask = bin(row.L2_mask),
            !.soft_trigger = row.soft_trigger,
            !.pps_trigger = row.pps_trigger,
            !.ext_trigger = row.ext_trigger,
            !.readout_time_utc_sec = row.readout_time_utc_secs,
            !.readout_time_utc_nsec = row.readout_time_utc_nsecs,
            !.channel_ids = row.channel_id,
            !.surf_word = row.surf_word,
            !.wf_length = row.wf_length,
            !.wfs = row.wfs]

\* the rows of the active run and event, as 0-based raw indices
ActiveMatches(s) ==
    nonzero(logical_and(EqMask(s.run, RUNS), EqMask(s.event, EVENTS)))

INITIALIZE_EVENT(s) ==
    LET found == ActiveMatches(s)
    IN  IF Len(found) = 0 THEN Raised(s, "IndexError")
        ELSE Returned(ReadRow(s, found[1]), <<>>)

\* setEvent that assigns the event and does not re-read the attributes
setEvent_stale(s, event, index) ==
    IF index
    THEN IF ~InRange(events(s), event) THEN Raised(s, "IndexError")
         ELSE Returned([s EXCEPT !.event = Item(events(s), event)], <<>>)
    ELSE IF ~(int(event) \in Range(events(s))) THEN Raised(s, "ValueError")
         ELSE Returned([s EXCEPT !.event = int(event)], <<>>)

\* setEvent taking the ordinal as 1-based
setEvent_one_based(s, event, index) ==
    IF index
    THEN IF ~InRange(events(s), event - 1) THEN Raised(s, "IndexError")
         ELSE INITIALIZE_EVENT([s EXCEPT !.event = Item(events(s), event - 1)])
    ELSE IF ~(int(event) \in Range(events(s))) THEN Raised(s, "ValueError")
         ELSE INITIALIZE_EVENT([s EXCEPT !.event = int(event)])

setEvent(s, event, index) ==
    IF index
    THEN IF ~InRange(events(s), event) THEN Raised(s, "IndexError")
         ELSE INITIALIZE_EVENT([s EXCEPT !.event = Item(events(s), event)])
    ELSE IF ~(int(event) \in Range(events(s))) THEN Raised(s, "ValueError")
         ELSE INITIALIZE_EVENT([s EXCEPT !.event = int(event)])

\* setRun without the event reset: the attributes are re-read for the event
\* that was active
setRun_keep_event(s, run, index) ==
    IF index
    THEN IF ~InRange(runs, run) THEN Raised(s, "IndexError")
         ELSE INITIALIZE_EVENT([s EXCEPT !.run = Item(runs, run)])
    ELSE IF ~(int(run) \in Range(runs)) THEN Raised(s, "ValueError")
         ELSE INITIALIZE_EVENT([s EXCEPT !.run = int(run)])

\* setRun assigning the run before it is validated
setRun_assign_first(s, run, index) ==
    IF index
    THEN IF ~InRange(runs, run) THEN Raised(s, "IndexError")
         ELSE setEvent([s EXCEPT !.run = Item(runs, run)], 0, TRUE)
    ELSE IF ~(int(run) \in Range(runs))
         THEN Raised([s EXCEPT !.run = int(run)], "ValueError")
         ELSE setEvent([s EXCEPT !.run = int(run)], 0, TRUE)

setRun(s, run, index) ==
    IF index
    THEN IF ~InRange(runs, run) THEN Raised(s, "IndexError")
         ELSE setEvent([s EXCEPT !.run = Item(runs, run)], 0, TRUE)
    ELSE IF ~(int(run) \in Range(runs)) THEN Raised(s, "ValueError")
         ELSE setEvent([s EXCEPT !.run = int(run)], 0, TRUE)

getTriggerTypes(s) ==
    LET all == [i \in 1 .. Len(archive) |->
                    1 * SOFT_TRIGGER[i] + 2 * PPS_TRIGGER[i] + 3 * EXT_TRIGGER[i]]
    IN  Returned(s, Take(all, nonzero(EqMask(s.run, RUNS))))

getWF_last(s, channel) ==
    LET found == nonzero(EqMask(int(channel), s.channel_ids))
    IN  IF Len(found) = 0 THEN Raised(s, "IndexError")
        ELSE IF ~InRange(s.wfs, found[Len(found)]) THEN Raised(s, "IndexError")
        ELSE Returned(s, Item(s.wfs, found[Len(found)]))

getWF(s, channel) ==
    LET found == nonzero(EqMask(int(channel), s.channel_ids))
    IN  IF Len(found) = 0 THEN Raised(s, "IndexError")
        ELSE IF ~InRange(s.wfs, found[1]) THEN Raised(s, "IndexError")
        ELSE Returned(s, Item(s.wfs, found[1]))

\* __init__ after the columns are loaded; run and event may be None
init(run, event) ==
    LET r1 == IF run = None
              THEN Returned([Unset EXCEPT !.run = Item(runs, 0)], <<>>)
              ELSE setRun(Unset, run, FALSE)
        r2 == IF r1.exc # "none" THEN r1
              ELSE IF event = None
              THEN Returned([r1.self EXCEPT !.event = Item(events(r1.self), 0)], <<>>)
              ELSE setEvent(r1.self, event, FALSE)
    IN  IF r2.exc # "none" THEN r2 ELSE INITIALIZE_EVENT(r2.self)

(***************************************************************************)
(* The state machine: one action per call a caller can make                *)
(***************************************************************************)
NoCall == [op |-> "none", a |-> None, b |-> None, index |-> FALSE]

Init ==
    /\ archive \in Archives
    /\ pc = "new"
    /\ self = Unset
    /\ call = NoCall
    /\ ret = [exc |-> "none", val |-> <<>>]

Construct ==
    /\ pc = "new"
    /\ \E run \in RunArgs \cup {None}, event \in EventArgs \cup {None} :
          LET r == init(run, event)
          IN  /\ pc' = IF r.exc = "none" THEN "ready" ELSE "failed"
              /\ self' = r.self
              /\ call' = [op |-> "init", a |-> run, b |-> event, index |-> FALSE]
              /\ ret' = [exc |-> r.exc, val |-> r.val]
    /\ UNCHANGED archive

SetRun ==
    /\ pc = "ready"
    /\ \E index \in BOOLEAN :
          \E run \in (IF index THEN IndexArgs ELSE RunArgs) :
              LET r == setRun(self, run, index)
              IN  /\ self' = r.self
                  /\ call' = [op |-> "setRun", a |-> run, b |-> None, index |-> index]
                  /\ ret' = [exc |-> r.exc, val |-> r.val]
    /\ UNCHANGED <<archive, pc>>

SetEvent ==
    /\ pc = "ready"
    /\ \E index \in BOOLEAN :
          \E event \in (IF index THEN IndexArgs ELSE EventArgs) :
              LET r == setEvent(self, event, index)
              IN  /\ self' = r.self
                  /\ call' = [op |-> "setEvent", a |-> event, b |-> None, index |-> index]
                  /\ ret' = [exc |-> r.exc, val |-> r.val]
    /\ UNCHANGED <<archive, pc>>

GetTriggerTypes ==
    /\ pc = "ready"
    /\ LET r == getTriggerTypes(self)
       IN  /\ self' = r.self
           /\ call' = [op |-> "getTriggerTypes", a |-> None, b |-> None, index |-> FALSE]
           /\ ret' = [exc |-> r.exc, val |-> r.val]
    /\ UNCHANGED <<archive, pc>>

GetWF ==
    /\ pc = "ready"
    /\ \E channel \in ChannelArgs :
          LET r == getWF(self, channel)
          IN  /\ self' = r.self
              /\ call' = [op |-> "getWF", a |-> channel, b |-> None, index |-> FALSE]
              /\ ret' = [exc |-> r.exc, val |-> r.val]
    /\ UNCHANGED <<archive, pc>>

Next == Construct \/ SetRun \/ SetEvent \/ GetTriggerTypes \/ GetWF

Spec == Init /\ [][Next]_vars

(***************************************************************************)
(* What the claims are stated in: the archive itself, not the reader's     *)
(* own lookups                                                             *)
(***************************************************************************)
Rows == 1 .. Len(archive)

\* the rows (1-based) holding the pair (r, e)
RowsOfPair(r, e) == {i \in Rows : archive[i].run = r /\ archive[i].event = e}

\* the rows (1-based) of run r
RowsOfRunSet(r) == {i \in Rows : archive[i].run = r}

Lowest(S) == CHOOSE x \in S : \A y \in S : x <= y

\* the i-th (0-based) row of run r in archive order, 1-based
NthRowOfRun(r, i) ==
    CHOOSE x \in RowsOfRunSet(r) :
        Cardinality({y \in RowsOfRunSet(r) : y < x}) = i

\* the attributes of s are the columns at this row
Materialized(s, row) ==
    /\ s.event_second = row.event_second
    /\ s.event_time = row.event_time
    /\ s.last_pps = row.last_pps
    /\ s.llast_pps = row.llast_pps
    /\ s.deadtime_counter = row.deadtime_counter
    /\ s.deadtime_counter_last_pps = row.deadtime_counter_last_pps
    /\ s.deadtime_counter_llast_pps = row.deadtime_counter_llast_pps
    /\ s.l2_mask = bin(row.L2_mask)
    /\ s.soft_trigger = row.soft_trigger
    /\ s.pps_trigger = row.pps_trigger
    /\ s.ext_trigger = row.ext_trigger
    /\ s.readout_time_utc_sec = row.readout_time_utc_secs
    /\ s.readout_time_utc_nsec = row.readout_time_utc_nsecs
    /\ s.channel_ids = row.channel_id
    /\ s.surf_word = row.surf_word
    /\ s.wf_length = row.wf_length
    /\ s.wfs = row.wfs

RowFormula(row) == row.soft_trigger + 2 * row.pps_trigger + 3 * row.ext_trigger

FlagsSet(row) == row.soft_trigger + row.pps_trigger + row.ext_trigger

(***************************************************************************)
(* C1: once the constructor has returned, and after every setRun and       *)
(* setEvent call, failed ones included, the attributes of the instance are *)
(* the columns at a row whose run is the active run and whose event is the *)
(* active event (l2_mask being that row's L2_mask through bin()), and      *)
(* _active_index is that row.                                              *)
(***************************************************************************)
C1_SelectionMaterialized ==
    pc = "ready" =>
        \E i \in RowsOfPair(self.run, self.event) :
            /\ self.active_index = i - 1
            /\ Materialized(self, archive[i])

C1_Witness ==
    /\ pc = "ready"
    /\ call.op = "setEvent"
    /\ ret.exc = "ValueError"
    /\ self.active_index >= 1

(***************************************************************************)
(* C2: every setRun that returns, by run number or by ordinal, leaves the  *)
(* run it was asked for active and the active event equal to the event of  *)
(* the lowest row of that run.                                             *)
(***************************************************************************)
C2_SetRunResetsEvent ==
    (pc = "ready" /\ call.op = "setRun" /\ ret.exc = "none") =>
        /\ self.run = (IF call.index THEN Item(SortSet({archive[i].run : i \in Rows}), call.a)
                       ELSE call.a)
        /\ self.event = archive[Lowest(RowsOfRunSet(self.run))].event

C2_Witness ==
    /\ pc = "ready"
    /\ call.op = "setRun"
    /\ ret.exc = "none"
    /\ call.index
    /\ Cardinality(RowsOfRunSet(self.run)) >= 2
    /\ archive[1].run = self.run
    /\ archive[1].event # archive[2].event

(***************************************************************************)
(* C3 as stated: a setEvent that returns has found exactly one row holding *)
(* the active (run, event) pair; with two such rows it ends in an error.   *)
(***************************************************************************)
C3_UniqueRowOrError ==
    (pc = "ready" /\ call.op = "setEvent" /\ ret.exc = "none") =>
        Cardinality(RowsOfPair(self.run, self.event)) = 1

\* one step of a call given a number that no row holds
C4_Step ==
    LET missingRun == /\ call'.op = "setRun"
                      /\ RowsOfRunSet(call'.a) = {}
        missingEvent == /\ call'.op = "setEvent"
                        /\ RowsOfPair(self.run, call'.a) = {}
    IN  (pc = "ready" /\ ~call'.index /\ (missingRun \/ missingEvent)) =>
            /\ ret'.exc = "ValueError"
            /\ self' = self
            /\ \A i \in Rows : setRun(self', archive[i].run, FALSE).exc = "none"
            /\ \A i \in RowsOfRunSet(self'.run) :
                    setEvent(self', archive[i].event, FALSE).exc = "none"

(***************************************************************************)
(* C4: a setRun given a run number that no row holds, and a setEvent given *)
(* an event number that no row of the active run holds, raise ValueError   *)
(* (the code's not-found error) and leave every attribute of the instance  *)
(* as it was; afterwards setRun succeeds for every run of the archive and  *)
(* setEvent for every event of the active run.                             *)
(***************************************************************************)
C4_NotFoundLeavesState == [][C4_Step]_vars

C4_Witness ==
    /\ pc = "ready"
    /\ call.op = "setRun"
    /\ ~call.index
    /\ ret.exc = "ValueError"
    /\ self.active_index >= 1

(***************************************************************************)
(* C5: for every ordinal i with 0 <= i < N, setEvent(events[i]) and        *)
(* setEvent(i, index=True) made in the same state both return and leave    *)
(* the same instance: the same active event and the same attributes.       *)
(***************************************************************************)
C5_LiteralAndOrdinalAgree ==
    pc = "ready" =>
        \A i \in 0 .. N(self) - 1 :
            LET e == archive[NthRowOfRun(self.run, i)].event
                byValue == setEvent(self, e, FALSE)
                byIndex == setEvent(self, i, TRUE)
            IN  /\ byValue.exc = "none"
                /\ byIndex.exc = "none"
                /\ byValue.self = byIndex.self

C5_Witness ==
    /\ pc = "ready"
    /\ call.op = "setEvent"
    /\ call.index
    /\ call.a = 1
    /\ ret.exc = "none"
    /\ self.active_index = 1

(***************************************************************************)
(* C6 as stated: the trigger type of the active row and every entry of     *)
(* getTriggerTypes() equal soft + 2*pps + 3*ext of their row and lie in    *)
(* {0,1,2,3}, whatever the three flags are.                                *)
(***************************************************************************)
C6_TriggerTypeInRange ==
    pc = "ready" =>
        LET types == getTriggerTypes(self).val
        IN  /\ trigger_type(self) = RowFormula(archive[self.active_index + 1])
            /\ trigger_type(self) \in 0 .. 3
            /\ Len(types) = Cardinality(RowsOfRunSet(self.run))
            /\ \A k \in 1 .. Len(types) :
                  /\ types[k] = RowFormula(archive[NthRowOfRun(self.run, k - 1)])
                  /\ types[k] \in 0 .. 3

(***************************************************************************)
(* C6 amended: the trigger type of the active row and every entry of       *)
(* getTriggerTypes() equal soft + 2*pps + 3*ext of their row and lie in    *)
(* {0,...,6}; they lie in {0,1,2,3} when at most one flag of the row is    *)
(* set.                                                                    *)
(***************************************************************************)
C6_TriggerTypeFormula ==
    pc = "ready" =>
        LET types == getTriggerTypes(self).val
            active == archive[self.active_index + 1]
        IN  /\ trigger_type(self) = RowFormula(active)
            /\ trigger_type(self) \in 0 .. 6
            /\ FlagsSet(active) <= 1 => trigger_type(self) \in 0 .. 3
            /\ Len(types) = Cardinality(RowsOfRunSet(self.run))
            /\ \A k \in 1 .. Len(types) :
                  LET row == archive[NthRowOfRun(self.run, k - 1)]
                  IN  /\ types[k] = RowFormula(row)
                      /\ types[k] \in 0 .. 6
                      /\ FlagsSet(row) <= 1 => types[k] \in 0 .. 3

C6_Witness ==
    /\ pc = "ready"
    /\ call.op = "getTriggerTypes"
    /\ ret.exc = "none"
    /\ trigger_type(self) = 6
    /\ \E k \in 1 .. Len(ret.val) : ret.val[k] = 4

(***************************************************************************)
(* C7: getWF(c) on the active row of a selected (run, event) pair returns  *)
(* the entry of that row's wfs at the first position of c in that row's    *)
(* channel_id, unchanged, and raises (IndexError, the code's channel-not-  *)
(* found error) when c does not occur in it.  The row of a pair is the     *)
(* lowest row holding it.                                                  *)
(***************************************************************************)
C7_WaveformOfChannel ==
    (pc = "ready" /\ call.op = "getWF") =>
        LET row == archive[Lowest(RowsOfPair(self.run, self.event))]
            at == {j \in 1 .. Len(row.channel_id) : row.channel_id[j] = call.a}
        IN  IF at = {}
            THEN ret.exc = "IndexError"
            ELSE /\ ret.exc = "none"
                 /\ ret.val = row.wfs[Lowest(at)]

C7_Witness ==
    /\ pc = "ready"
    /\ call.op = "getWF"
    /\ ret.exc = "none"
    /\ call.a = 123
    /\ self.active_index = 1
    /\ archive[1].channel_id = <<123, 0>>
    /\ archive[2].channel_id = <<0, 123>>

(***************************************************************************)
(* C8: a constructor that returns has made active: the smallest run of the *)
(* archive when no run was given, else the given run; the event of the     *)
(* lowest row of that run when no event was given, else the given event;   *)
(* and the attributes are those of a row of that pair.  A constructor      *)
(* that raises was given a run no row holds or an event no row of the      *)
(* selected run holds.                                                     *)
(***************************************************************************)
C8_ConstructionSelects ==
    call.op = "init" =>
        LET smallest == Lowest({archive[i].run : i \in Rows})
            selected == IF call.a = None THEN smallest ELSE call.a
        IN  /\ pc \in {"ready", "failed"}
            /\ pc = "ready" =>
                  /\ self.run = selected
                  /\ self.event = (IF call.b = None
                                   THEN archive[Lowest(RowsOfRunSet(selected))].event
                                   ELSE call.b)
                  /\ \E i \in RowsOfPair(self.run, self.event) :
                        Materialized(self, archive[i])
            /\ pc = "failed" =>
                  \/ RowsOfRunSet(selected) = {}
                  \/ call.b # None /\ RowsOfPair(selected, call.b) = {}

C8_Witness ==
    /\ pc = "ready"
    /\ call.op = "init"
    /\ call.a # None
    /\ call.b # None
    /\ self.event # archive[Lowest(RowsOfRunSet(self.run))].event

(***************************************************************************)
(* C9: subsecond is the fraction (event_time - last_pps) over              *)
(* (last_pps - llast_pps) of the signed differences: with                  *)
(* last_pps > event_time the numerator is negative, not the difference     *)
(* modulo 2^32, and event_time=100, last_pps=150, llast_pps=50 gives       *)
(* -50/100 = -1/2.                                                         *)
(***************************************************************************)
C9_SubsecondSigned ==
    pc = "ready" =>
        LET row == archive[self.active_index + 1]
            q == subsecond(self)
        IN  /\ q.num = Wide(row.event_time - row.last_pps)
            /\ q.den = Wide(row.last_pps - row.llast_pps)
            /\ row.last_pps > row.event_time => q.num.hi < 0
            /\ (row.event_time = 100 /\ row.last_pps = 150 /\ row.llast_pps = 50) =>
                  /\ WideToInt(q.num) = 0 - 50
                  /\ WideToInt(q.den) = 100
                  /\ 2 * WideToInt(q.num) = 0 - WideToInt(q.den)

C9_Witness ==
    /\ pc = "ready"
    /\ self.event_time = 100
    /\ self.last_pps = 150
    /\ self.llast_pps = 50
    /\ WideToInt(subsecond(self).num) = 0 - 50

(***************************************************************************)
(* C10 as stated: after setEvent(i, index=True) with 0 <= i < N the        *)
(* attributes are those of the i-th row of the active run in archive       *)
(* order, the trigger type of the instance is getTriggerTypes()[i] and     *)
(* event is events[i], on every archive.                                   *)
(***************************************************************************)
C10_OrdinalSelectsIthRow ==
    (/\ pc = "ready"
     /\ call.op = "setEvent"
     /\ call.index
     /\ ret.exc = "none"
     /\ 0 <= call.a
     /\ call.a < N(self)) =>
        /\ Materialized(self, archive[NthRowOfRun(self.run, call.a)])
        /\ trigger_type(self) = Item(getTriggerTypes(self).val, call.a)
        /\ self.event = Item(events(self), call.a)

====
